---- MODULE Spec2Model ----
(***************************************************************************)
(* Lesson booking of the tutoring backend (teaching app): the booking      *)
(* validator LessonDetailSerializer (src/teaching/serializers.py), the     *)
(* lesson endpoints of LessonViewSet and the availability endpoint         *)
(* TeacherAvailabilityView (src/teaching/views.py) and the Lesson model    *)
(* (src/teaching/models.py).                                               *)
(*                                                                         *)
(* Time.  An absolute timestamp is a number of ticks since a Monday        *)
(* 00:00:00 in the server's time zone (settings.TIME_ZONE, USE_TZ); a tick *)
(* is 1/TicksPerSecond of a second, so that a datetime or a time of day    *)
(* with a non-zero sub-second part is representable.  Daylight-saving      *)
(* changes are outside the model: every day has 24 hours.                  *)
(***************************************************************************)
EXTENDS Integers, Sequences, FiniteSets, TLC

\* Resolution of the clock: ticks per second (sub-second parts are multiples of 1/TicksPerSecond s).
TicksPerSecond == 2
\* Largest number of stored schedule windows in the inputs of the validator.
MaxSchedules == 2
\* Largest number of stored lessons in the inputs of the validator.
MaxLessons == 1

Second == TicksPerSecond
Hour == 60 * 60 * Second
Day == 24 * Hour

\* Python's datetime accessors on a timestamp.
\* d.weekday(): Monday is 0 ... Sunday is 6.
weekday(t) == (t \div Day) % 7
\* d.time(): the time of day.
time(t) == t % Day
\* timedelta(hours=h)
hours(h) == h * Hour
\* A time of day hh:mm:ss, and a timestamp on day number d (day 0 is a Monday).
hms(h, m, s) == h * Hour + m * 60 * Second + s * Second
at(d, tod) == d * Day + tod

\* Schedule.WEEKDAYS, in the order of Python's weekday(); strftime("%A").lower()
\* of a timestamp is the entry at its weekday.
WEEKDAYS == <<"monday", "tuesday", "wednesday", "thursday", "friday", "saturday", "sunday">>
day_name(t) == WEEKDAYS[weekday(t) + 1]

\* LessonStatus
VOID == "void"
APPROVED == "approved"
CANCELLED_BY_TEACHER == "cancelled_by_teacher"
CANCELLED_BY_STUDENT == "cancelled_by_student"
DONE == "done"
LessonStatus == {VOID, APPROVED, CANCELLED_BY_TEACHER, CANCELLED_BY_STUDENT, DONE}

\* A nullable column: <<>> is NULL, <<v>> is the value v.
NULL == <<>>
Some(v) == <<v>>
IsNull(c) == c = <<>>

(***************************************************************************)
(* Stored rows.                                                            *)
(*   Schedule (models.py:10-35): teacher, weekday, start_time, end_time    *)
(*     (times of day).                                                     *)
(*   Lesson (models.py:53-84): id, teacher, student, start_time, end_time  *)
(*     (nullable), status.                                                 *)
(* A booking request carries the teacher it is for, start_time and         *)
(* duration_hours; the caller is authenticated, has the student or teacher *)
(* role and names a subject and a category the teacher has, so the checks  *)
(* of serializers.py:198-263 pass and are not modelled.                    *)
(***************************************************************************)

\* LessonStatus values that block a time slot: status__in=[VOID, APPROVED].
Blocking == {VOID, APPROVED}

\* Accessors of a time of day (datetime.minute, .second, .microsecond).
minute(t) == (time(t) \div (60 * Second)) % 60
second(t) == (time(t) \div Second) % 60
microsecond(t) == time(t) % Second

OK == "OK"
PastStart == "PastStart"
MisalignedStart == "MisalignedStart"
InvalidDuration == "InvalidDuration"
SlotTaken == "SlotTaken"
OutsideAvailability == "OutsideAvailability"
Accepted == "Accepted"

\* validate_start_time without the microsecond test (sensitivity of C9).
validate_start_time_no_microsecond(value, now_) ==
    IF value < now_ THEN PastStart
    ELSE IF minute(value) # 0 \/ second(value) # 0
         THEN MisalignedStart
         ELSE OK

\* validate_start_time with the alignment test ahead of the past test (sensitivity of C11).
validate_start_time_aligned_first(value, now_) ==
    IF minute(value) # 0 \/ second(value) # 0 \/ microsecond(value) # 0
    THEN MisalignedStart
    ELSE IF value < now_ THEN PastStart
         ELSE OK

\* validate_start_time: the first error it raises for a start value at time now_, or OK.
validate_start_time(value, now_) ==
    IF value < now_ THEN PastStart
    ELSE IF minute(value) # 0 \/ second(value) # 0 \/ microsecond(value) # 0
         THEN MisalignedStart
         ELSE OK

\* The checks validate_start_time evaluates, in order.
start_time_checks(value, now_) ==
    IF value < now_ THEN <<"past">> ELSE <<"past", "aligned">>

\* duration_hours = ChoiceField(choices=[1, 2]): a value outside the choices is a field error.
duration_choices == {1, 2}
validate_duration_hours(value) ==
    IF value \in duration_choices THEN OK ELSE InvalidDuration

\* Lesson.objects.filter(teacher=, status__in=[VOID, APPROVED], start_time__lt=end_time,
\* end_time__gt=start_time): a comparison with a NULL end_time selects no row.
overlapping_lessons(lsns, teacher, start_time, end_time) ==
    { l \in lsns : /\ l.teacher = teacher
                   /\ l.status \in Blocking
                   /\ l.start_time < end_time
                   /\ ~IsNull(l.end_time)
                   /\ l.end_time[1] > start_time }

\* datetime.strptime("23:59:59").time() and datetime.strptime("00:00:00").time()
T235959 == hms(23, 59, 59)
T000000 == hms(0, 0, 0)

\* schedule_part1 without the test of the window's end (sensitivity of C8).
schedule_part1_any_end(scheds, teacher, start_time) ==
    \E w \in scheds : /\ w.teacher = teacher
                      /\ w.weekday = day_name(start_time)
                      /\ w.start_time <= time(start_time)

\* Schedule.objects.filter(teacher=, weekday=lesson_day_name, start_time__lte=lesson_start_time,
\* end_time=23:59:59).exists()
schedule_part1(scheds, teacher, start_time) ==
    \E w \in scheds : /\ w.teacher = teacher
                      /\ w.weekday = day_name(start_time)
                      /\ w.start_time <= time(start_time)
                      /\ w.end_time = T235959

\* next_day_name taking the weekday of start_time itself (sensitivity of C6).
next_day_name_same_day(start_time) == WEEKDAYS[weekday(start_time) + 1]

\* next_day_name: the list entry at (start_time.weekday() + 1) % 7
next_day_name(start_time) == WEEKDAYS[((weekday(start_time) + 1) % 7) + 1]

\* Schedule.objects.filter(teacher=, weekday=next_day_name, start_time=00:00:00,
\* end_time__gte=lesson_end_time).exists()
schedule_part2(scheds, teacher, start_time, end_time) ==
    \E w \in scheds : /\ w.teacher = teacher
                      /\ w.weekday = next_day_name(start_time)
                      /\ w.start_time = T000000
                      /\ w.end_time >= time(end_time)

\* schedule_covers with start_time__lt in place of start_time__lte (sensitivity of C2).
schedule_covers_strict(scheds, teacher, start_time, from_, to_) ==
    \E w \in scheds : /\ w.teacher = teacher
                      /\ w.weekday = day_name(start_time)
                      /\ w.start_time < from_
                      /\ w.end_time >= to_

\* Schedule.objects.filter(teacher=, weekday=lesson_day_name, start_time__lte=from_,
\* end_time__gte=to_).exists(), on the weekday of start_time: the query of schedule_exists,
\* first_hour_schedule and second_hour_schedule.
schedule_covers(scheds, teacher, start_time, from_, to_) ==
    \E w \in scheds : /\ w.teacher = teacher
                      /\ w.weekday = day_name(start_time)
                      /\ w.start_time <= from_
                      /\ w.end_time >= to_

schedule_exists(scheds, teacher, start_time, end_time) ==
    schedule_covers(scheds, teacher, start_time, time(start_time), time(end_time))

first_hour_schedule(scheds, teacher, start_time) ==
    schedule_covers(scheds, teacher, start_time, time(start_time), time(start_time + hours(1)))

\* second_hour_schedule asking only that a window reaches the start of the second hour
\* (sensitivity of C7).
second_hour_schedule_to_its_start(scheds, teacher, start_time, end_time) ==
    schedule_covers(scheds, teacher, start_time,
                    time(start_time + hours(1)), time(start_time + hours(1)))

second_hour_schedule(scheds, teacher, start_time, end_time) ==
    schedule_covers(scheds, teacher, start_time, time(start_time + hours(1)), time(end_time))

\* The branch of validate on the time of day: the interval is taken to cross midnight.
crosses_midnight(start_time, end_time) == time(end_time) <= time(start_time)

\* The schedule part of validate (serializers.py:278-344): TRUE when no error is raised.
fits_schedule(scheds, teacher, start_time, duration_hours) ==
    LET end_time == start_time + hours(duration_hours) IN
    IF crosses_midnight(start_time, end_time)
    THEN schedule_part1(scheds, teacher, start_time)
         /\ schedule_part2(scheds, teacher, start_time, end_time)
    ELSE IF ~schedule_exists(scheds, teacher, start_time, end_time)
         THEN IF duration_hours = 2
              THEN first_hour_schedule(scheds, teacher, start_time)
                   /\ second_hour_schedule(scheds, teacher, start_time, end_time)
              ELSE FALSE
         ELSE TRUE

\* validate with the schedule check ahead of the overlap check (sensitivity of C1).
validate_coverage_first(scheds, lsns, teacher, start_time, duration_hours) ==
    LET end_time == start_time + hours(duration_hours) IN
    IF ~fits_schedule(scheds, teacher, start_time, duration_hours)
    THEN OutsideAvailability
    ELSE IF overlapping_lessons(lsns, teacher, start_time, end_time) # {}
         THEN SlotTaken
         ELSE Accepted

\* LessonDetailSerializer.validate on field-validated data for a new lesson: the error it
\* raises, or Accepted.
validate(scheds, lsns, teacher, start_time, duration_hours) ==
    LET end_time == start_time + hours(duration_hours) IN
    IF overlapping_lessons(lsns, teacher, start_time, end_time) # {}
    THEN SlotTaken
    ELSE IF ~fits_schedule(scheds, teacher, start_time, duration_hours)
         THEN OutsideAvailability
         ELSE Accepted

\* The checks validate evaluates, in order.
validate_checks(scheds, lsns, teacher, start_time, duration_hours) ==
    IF overlapping_lessons(lsns, teacher, start_time, start_time + hours(duration_hours)) # {}
    THEN <<"overlap">>
    ELSE <<"overlap", "coverage">>

\* The field errors of a request (the serializer's field validation collects the error
\* of every field before validate runs).
field_errors(r, now_) ==
    {validate_start_time(r.start_time, now_), validate_duration_hours(r.duration_hours)} \ {OK}

(***************************************************************************)
(* The lesson endpoints.                                                   *)
(***************************************************************************)

\* BaseUser.ROLE_STUDENT, BaseUser.ROLE_TEACHER
ROLE_STUDENT == "student"
ROLE_TEACHER == "teacher"

\* settings.LESSON_CANCEL_DEADLINE_HOURS
LESSON_CANCEL_DEADLINE_HOURS == 3

\* Lesson.save: the row is written only when end_time is not set; otherwise the table
\* is left as it is.  A written row replaces the row of the same id, if any.
Lesson_save(lsns, obj) ==
    IF IsNull(obj.end_time)
    THEN {l \in lsns : l.id # obj.id} \cup {obj}
    ELSE lsns

\* The primary key the database gives a new row.
new_id(lsns) ==
    IF lsns = {} THEN 1
    ELSE 1 + (CHOOSE i \in {l.id : l \in lsns} : \A l \in lsns : l.id <= i)

\* LessonViewSet.get_queryset: the lessons a user sees (a teacher the lessons taught,
\* a student the lessons taken).
get_queryset(lsns, user) ==
    IF user.role = ROLE_TEACHER THEN {l \in lsns : l.teacher = user.id}
    ELSE {l \in lsns : l.student = user.id}

\* The lesson a request is booked as: serializer.save(student=, teacher=) on the
\* validated data, with validate's end_time and the default status.
booked_lesson(lsns, r) ==
    [ id |-> new_id(lsns), teacher |-> r.teacher, student |-> r.student,
      start_time |-> r.start_time,
      end_time |-> Some(r.start_time + hours(r.duration_hours)),
      status |-> VOID ]

\* booked_lessons without the status filter (sensitivity of C12).
booked_lessons_any_status(lsns, teacher, date_from, date_to) ==
    { l \in lsns : /\ l.teacher = teacher
                   /\ l.start_time \div Day >= date_from
                   /\ l.start_time \div Day <= date_to }

\* TeacherAvailabilityView.get: the lessons whose hours are taken as occupied on the
\* dates date_from..date_to (day numbers).
booked_lessons(lsns, teacher, date_from, date_to) ==
    { l \in lsns : /\ l.teacher = teacher
                   /\ l.status \in Blocking
                   /\ l.start_time \div Day >= date_from
                   /\ l.start_time \div Day <= date_to }

(***************************************************************************)
(* The availability endpoint, TeacherAvailabilityView.get.                 *)
(*                                                                         *)
(* A naive datetime (tzinfo=None) is a wall-clock reading, written as the  *)
(* timestamp that shows this reading in the server's time zone.  A         *)
(* datetime read from the database is aware and in UTC, so its             *)
(* replace(tzinfo=None) is the UTC wall clock; make_aware(combine(date,    *)
(* time)) is in the server's time zone (TIME_ZONE = "Europe/Kiev"), so its *)
(* replace(tzinfo=None) is the local wall clock.                           *)
(***************************************************************************)
\* Hours that Europe/Kiev is ahead of UTC: in winter (EET) and in summer (EEST).
EET == 2
EEST == 3
UtcOffsets == {EET, EEST}

\* d.replace(tzinfo=None) of a datetime d read from the database (UTC).
replace_tzinfo_utc(t, off) == t - hours(off)
\* d.replace(tzinfo=None) of a datetime d made aware in the server's time zone.
replace_tzinfo_local(t) == t

\* The number of passes of a loop "while current < end: ... current += 1 hour" that
\* starts at current = start.
hour_steps(start, end) ==
    IF end > start THEN (end - start + Hour - 1) \div Hour ELSE 0

\* booked_slots: the naive datetimes taken as occupied, from the (start_time, end_time)
\* pairs of the lessons in booked.
booked_slots(booked, off) ==
    UNION { IF ~IsNull(l.end_time)
            THEN { replace_tzinfo_utc(l.start_time + hours(k), off)
                     : k \in 0..(hour_steps(l.start_time, l.end_time[1]) - 1) }
            ELSE { replace_tzinfo_utc(l.start_time, off) }
          : l \in booked }

\* The values current_slot_dt takes in the loop over one schedule_slot on current_date.
slot_walk(current_date, schedule_slot) ==
    [ k \in 1..hour_steps(schedule_slot.start_time, schedule_slot.end_time)
        |-> at(current_date, schedule_slot.start_time) + hours(k - 1) ]

\* schedule_slot_entries taking only a slot before now as past (sensitivity of C13).
schedule_slot_entries_now_not_past(current_date, schedule_slot, booked, now_) ==
    LET slot_end_dt == at(current_date, schedule_slot.end_time)
        is_past_slot(t) == t < now_
        is_booked(t) == replace_tzinfo_local(t) \in booked
        offered(t) == ~is_booked(t) /\ ~is_past_slot(t)
        kept == SelectSeq(slot_walk(current_date, schedule_slot), offered)
    IN  [ i \in 1..Len(kept) |->
            [ start_time |-> kept[i],
              can_book_2_hours |-> /\ kept[i] + hours(1) < slot_end_dt
                                   /\ replace_tzinfo_local(kept[i] + hours(1)) \notin booked ] ]

\* The entries the loop over one schedule_slot appends to daily_slots.
schedule_slot_entries(current_date, schedule_slot, booked, now_) ==
    LET slot_end_dt == at(current_date, schedule_slot.end_time)
        is_past_slot(t) == t <= now_
        is_booked(t) == replace_tzinfo_local(t) \in booked
        offered(t) == ~is_booked(t) /\ ~is_past_slot(t)
        kept == SelectSeq(slot_walk(current_date, schedule_slot), offered)
    IN  [ i \in 1..Len(kept) |->
            [ start_time |-> kept[i],
              can_book_2_hours |-> /\ kept[i] + hours(1) < slot_end_dt
                                   /\ replace_tzinfo_local(kept[i] + hours(1)) \notin booked ] ]

\* schedules.filter(weekday=weekday_name) of the ordered queryset, on current_date.
day_schedules(ordered, current_date) ==
    LET on_day(w) == w.weekday = day_name(at(current_date, 0))
    IN  SelectSeq(ordered, on_day)

\* daily_slots of current_date: the entries of its schedule slots, in their order.
RECURSIVE daily_slots(_, _, _, _)
daily_slots(current_date, slots, booked, now_) ==
    IF slots = <<>> THEN <<>>
    ELSE schedule_slot_entries(current_date, Head(slots), booked, now_)
         \o daily_slots(current_date, Tail(slots), booked, now_)

\* order_by_start_time returning the rows in any order (sensitivity of C20).
RECURSIVE order_by_nothing(_)
order_by_nothing(S) ==
    IF S = {} THEN {<<>>}
    ELSE UNION { { <<w>> \o rest : rest \in order_by_nothing(S \ {w}) } : w \in S }

\* The orders in which Schedule.objects.filter(teacher=).order_by("weekday", "start_time")
\* may return the teacher's rows, as far as the order within a weekday goes: ascending
\* start_time, rows of equal start_time in any order.
RECURSIVE order_by_start_time(_)
order_by_start_time(S) ==
    IF S = {} THEN {<<>>}
    ELSE UNION { { <<w>> \o rest : rest \in order_by_start_time(S \ {w}) }
                 : w \in {v \in S : \A u \in S : v.start_time <= u.start_time} }

\* get_availability keeping the dates whose daily_slots is empty (sensitivity of C19).
get_availability_every_date(ordered, booked, date_from, date_to, now_) ==
    LET item(d) == [ date |-> d,
                     slots |-> daily_slots(d, day_schedules(ordered, d), booked, now_) ]
    IN  [ i \in 1..(IF date_to >= date_from THEN date_to - date_from + 1 ELSE 0)
            |-> item(date_from + i - 1) ]

\* The availability mapping, as the sequence of its (date, daily_slots) items in
\* insertion order: the dates date_from..date_to whose daily_slots is not empty.
get_availability(ordered, booked, date_from, date_to, now_) ==
    LET item(d) == [ date |-> d,
                     slots |-> daily_slots(d, day_schedules(ordered, d), booked, now_) ]
        all == [ i \in 1..(IF date_to >= date_from THEN date_to - date_from + 1 ELSE 0)
                    |-> item(date_from + i - 1) ]
        has_slots(it) == it.slots # <<>>
    IN  SelectSeq(all, has_slots)

(***************************************************************************)
(* State.                                                                  *)
(***************************************************************************)
VARIABLES
    schedules,  \* the Schedule table
    lessons,    \* the Lesson table
    now,        \* timezone.now()
    pc,         \* per request handler: "idle", "valid", "invalid", "created"
    req,        \* per request handler: the booking request it handles
    errors,     \* per request handler: the validation errors of its response
    checks,     \* per request handler: the checks its validation evaluated, in order
    response,   \* the response of the last cancel or approve call
    query,      \* the availability request being answered: teacher, date_from, date_to
    utcoffset,  \* hours the server's time zone is ahead of UTC on the dates at hand
    availability, \* the response of the availability request
    users,      \* the BaseUser table
    user_seq,   \* the primary keys the BaseUser table has given out so far
    tokens,     \* the signed tokens that have been sent out by email
    user_request, \* the last request to the registration and activation endpoints
    lesson_obj  \* the caller and the Lesson object a cancel or approve handler holds

vars == <<schedules, lessons, now, pc, req, errors, checks, response,
          query, utcoffset, availability, users, user_seq, tokens, user_request, lesson_obj>>

\* The state of the registration and activation endpoints.
user_vars == <<users, user_seq, tokens, user_request>>

\* The state of the availability endpoint.
availability_vars == <<query, utcoffset, availability>>

\* The concurrent handlers of create requests.
Procs == {1, 2}

NoRequest == [teacher |-> 0, student |-> 0, start_time |-> 0, duration_hours |-> 0]
NoResponse == [op |-> "none", id |-> 0, code |-> 0, status |-> "none"]
NoQuery == [teacher |-> 0, date_from |-> 0, date_to |-> 0]
NoAvailability == [done |-> FALSE, result |-> <<>>]
NoInstance ==
    [user |-> [role |-> "none", id |-> 0],
     lesson |-> [id |-> 0, teacher |-> 0, student |-> 0, start_time |-> 0, end_time |-> <<>>,
                 status |-> "none"]]
NoToken == [user_id |-> 0, purpose |-> "none", exp |-> 0, signed |-> FALSE]
NoUserRequest == [op |-> "none", email |-> "", role |-> "none", failure |-> "none",
                  token |-> NoToken]

no_overlap(S) ==
    \A a, b \in S :
        (a # b /\ a.teacher = b.teacher /\ a.weekday = b.weekday)
            => ~(a.start_time < b.end_time /\ a.end_time > b.start_time)

\* The sets of at most n rows of C that the schedule endpoint admits (start before end,
\* no two windows of a teacher and weekday overlapping).
schedule_tables(C, n) ==
    {S \in SUBSET C : Cardinality(S) <= n /\ no_overlap(S)}

\* The tables of at most n lessons with rows from the bodies B, ids 1..n.
lesson_tables(B, n) ==
    UNION { { { [ id |-> i, teacher |-> f[i].teacher, student |-> f[i].student,
                  start_time |-> f[i].start_time, end_time |-> f[i].end_time,
                  status |-> f[i].status ] : i \in 1..k } : f \in [1..k -> B] }
            : k \in 0..n }

windows_of(teacher, day, times) ==
    { [teacher |-> teacher, weekday |-> day, start_time |-> p[1], end_time |-> p[2]]
        : p \in {q \in times \X times : q[1] < q[2]} }

(***************************************************************************)
(* The validator on its own: one validation of a request drawn from        *)
(* ValidateRequests against tables drawn from the candidates below.        *)
(* Day 6 is a Sunday, day 7 the Monday after it.  The times of the stored  *)
(* windows are whole seconds; the start of a request may have a sub-second *)
(* part.                                                                   *)
(***************************************************************************)
SundayTimes == {hms(21, 0, 0), hms(22, 0, 0), hms(22, 30, 0), hms(23, 0, 0), T235959}
MondayTimes == {T000000, hms(0, 30, 0), hms(1, 0, 0)}
ValidateSchedules ==
    windows_of(1, "sunday", SundayTimes) \cup windows_of(1, "monday", MondayTimes)

ValidateLessons ==
    { [teacher |-> 1, student |-> 1, start_time |-> s, end_time |-> e, status |-> st]
        : s \in {at(6, hms(22, 0, 0))},
          e \in {NULL, Some(at(6, hms(23, 0, 0))), Some(at(7, T000000))},
          st \in LessonStatus }

ValidateNow == {at(6, hms(21, 0, 0)), at(6, hms(21, 30, 0))}

ValidateRequests ==
    { [teacher |-> t, student |-> 1, start_time |-> s, duration_hours |-> d]
        : t \in {1, 2},
          s \in {at(6, hms(20, 30, 0)), at(6, hms(21, 0, 0)), at(6, hms(21, 0, 0)) + 1,
                 at(6, hms(22, 0, 0)), at(6, hms(22, 30, 0)), at(6, hms(23, 0, 0))},
          d \in {1, 2, 3} }

InitValidate ==
    /\ schedules \in schedule_tables(ValidateSchedules, MaxSchedules)
    /\ lessons \in lesson_tables(ValidateLessons, MaxLessons)
    /\ now \in ValidateNow
    /\ pc = [p \in Procs |-> "idle"]
    /\ req = [p \in Procs |-> NoRequest]
    /\ errors = [p \in Procs |-> {}]
    /\ checks = [p \in Procs |-> <<>>]
    /\ response = NoResponse
    /\ query = NoQuery
    /\ utcoffset = EET
    /\ availability = NoAvailability
    /\ users = {}
    /\ user_seq = 0
    /\ tokens = {}
    /\ user_request = NoUserRequest
    /\ lesson_obj = [p \in Procs |-> NoInstance]

\* serializer.is_valid() of a create request r in handler p: the field validation, then
\* validate when no field has an error.
IsValid(p, r) ==
    /\ pc[p] = "idle"
    /\ req' = [req EXCEPT ![p] = r]
    /\ IF field_errors(r, now) # {}
       THEN /\ errors' = [errors EXCEPT ![p] = field_errors(r, now)]
            /\ checks' = [checks EXCEPT ![p] = start_time_checks(r.start_time, now) \o <<"duration">>]
            /\ pc' = [pc EXCEPT ![p] = "invalid"]
       ELSE LET res == validate(schedules, lessons, r.teacher, r.start_time, r.duration_hours) IN
            /\ errors' = [errors EXCEPT ![p] = {res} \ {Accepted}]
            /\ checks' = [checks EXCEPT ![p] =
                    start_time_checks(r.start_time, now) \o <<"duration">>
                    \o validate_checks(schedules, lessons, r.teacher, r.start_time, r.duration_hours)]
            /\ pc' = [pc EXCEPT ![p] = IF res = Accepted THEN "valid" ELSE "invalid"]
    /\ UNCHANGED <<schedules, lessons, now, response, availability_vars, user_vars, lesson_obj>>

ValidateOnce == \E r \in ValidateRequests : IsValid(1, r)

NextValidate == ValidateOnce

SpecValidate == InitValidate /\ [][NextValidate]_vars

(***************************************************************************)
(* The lesson endpoints against the database: create (is_valid, then       *)
(* perform_create, with no transaction around the two), cancel, approve,   *)
(* and the passing of time.  The Lesson table starts with any rows the     *)
(* Lesson columns admit (the table outlives deployments and is also        *)
(* written by fixtures and by the admin's bulk updates, which do not go    *)
(* through Lesson.save).                                                   *)
(***************************************************************************)
SystemSchedules == windows_of(1, "sunday", {hms(21, 0, 0), hms(22, 0, 0), hms(23, 0, 0)})

SystemLessons ==
    { [teacher |-> 1, student |-> 1, start_time |-> at(6, hms(22, 0, 0)),
       end_time |-> e, status |-> st]
        : e \in {NULL, Some(at(6, hms(23, 0, 0)))}, st \in LessonStatus }

SystemRequests ==
    { [teacher |-> 1, student |-> 1, start_time |-> s, duration_hours |-> d]
        : s \in {at(6, hms(21, 0, 0)), at(6, hms(22, 0, 0))}, d \in {1, 2} }

\* The callers of cancel and approve: the student and the teacher of the stored
\* lessons, and another teacher.
Users == { [role |-> ROLE_STUDENT, id |-> 1], [role |-> ROLE_TEACHER, id |-> 1],
           [role |-> ROLE_TEACHER, id |-> 2] }

SystemStart == at(6, hms(19, 0, 0))
SystemEnd == at(6, hms(20, 0, 0))

Init ==
    /\ schedules \in schedule_tables(SystemSchedules, MaxSchedules)
    /\ lessons \in lesson_tables(SystemLessons, MaxLessons)
    /\ now = SystemStart
    /\ pc = [p \in Procs |-> "idle"]
    /\ req = [p \in Procs |-> NoRequest]
    /\ errors = [p \in Procs |-> {}]
    /\ checks = [p \in Procs |-> <<>>]
    /\ response = NoResponse
    /\ query = NoQuery
    /\ utcoffset = EET
    /\ availability = NoAvailability
    /\ users = {}
    /\ user_seq = 0
    /\ tokens = {}
    /\ user_request = NoUserRequest
    /\ lesson_obj = [p \in Procs |-> NoInstance]

\* LessonViewSet.create, first half: serializer.is_valid() on the request data.
CreateIsValid(p) == \E r \in SystemRequests : IsValid(p, r)

\* LessonViewSet.create, second half: perform_create saves the validated lesson.
PerformCreate(p) ==
    /\ pc[p] = "valid"
    /\ lessons' = Lesson_save(lessons, booked_lesson(lessons, req[p]))
    /\ pc' = [pc EXCEPT ![p] = "created"]
    /\ UNCHANGED <<schedules, now, req, errors, checks, response, availability_vars, user_vars, lesson_obj>>

\* The response of a create request is sent; the handler takes the next request.
Respond(p) ==
    /\ pc[p] \in {"created", "invalid"}
    /\ pc' = [pc EXCEPT ![p] = "idle"]
    /\ req' = [req EXCEPT ![p] = NoRequest]
    /\ errors' = [errors EXCEPT ![p] = {}]
    /\ checks' = [checks EXCEPT ![p] = <<>>]
    /\ UNCHANGED <<schedules, lessons, now, response, availability_vars, user_vars, lesson_obj>>

\* new_status_val with the two cancelled statuses exchanged (sensitivity of C27).
new_status_val_exchanged(lesson, user) ==
    IF user.role = ROLE_STUDENT /\ lesson.student = user.id THEN CANCELLED_BY_TEACHER
    ELSE IF user.role = ROLE_TEACHER /\ lesson.teacher = user.id THEN CANCELLED_BY_STUDENT
    ELSE "none"

\* The status cancel_lesson gives a lesson cancelled by user, "none" when the user is
\* neither its student nor its teacher (PermissionDenied).
new_status_val(lesson, user) ==
    IF user.role = ROLE_STUDENT /\ lesson.student = user.id THEN CANCELLED_BY_STUDENT
    ELSE IF user.role = ROLE_TEACHER /\ lesson.teacher = user.id THEN CANCELLED_BY_TEACHER
    ELSE "none"

\* LessonViewSet.cancel_lesson by user on the lesson of primary key id.
CancelLesson(user, id) ==
    /\ IF ~\E l \in get_queryset(lessons, user) : l.id = id
       THEN /\ response' = [op |-> "cancel", id |-> id, code |-> 404, status |-> "none"]
            /\ UNCHANGED lessons
       ELSE LET lesson == CHOOSE l \in lessons : l.id = id IN
            IF lesson.status \notin {VOID, APPROVED}
            THEN /\ response' = [op |-> "cancel", id |-> id, code |-> 400, status |-> "none"]
                 /\ UNCHANGED lessons
            ELSE IF lesson.start_time - now < hours(LESSON_CANCEL_DEADLINE_HOURS)
            THEN /\ response' = [op |-> "cancel", id |-> id, code |-> 400, status |-> "none"]
                 /\ UNCHANGED lessons
            ELSE IF new_status_val(lesson, user) = "none"
            THEN /\ response' = [op |-> "cancel", id |-> id, code |-> 403, status |-> "none"]
                 /\ UNCHANGED lessons
            ELSE /\ lessons' = Lesson_save(lessons,
                                   [lesson EXCEPT !.status = new_status_val(lesson, user)])
                 /\ response' = [op |-> "cancel", id |-> id, code |-> 200,
                                 status |-> new_status_val(lesson, user)]
    /\ UNCHANGED <<schedules, now, pc, req, errors, checks, availability_vars, user_vars, lesson_obj>>

\* LessonViewSet.approve_lesson by user on the lesson of primary key id.
ApproveLesson(user, id) ==
    /\ IF user.role # ROLE_TEACHER
       THEN /\ response' = [op |-> "approve", id |-> id, code |-> 403, status |-> "none"]
            /\ UNCHANGED lessons
       ELSE IF ~\E l \in get_queryset(lessons, user) : l.id = id
       THEN /\ response' = [op |-> "approve", id |-> id, code |-> 404, status |-> "none"]
            /\ UNCHANGED lessons
       ELSE LET lesson == CHOOSE l \in lessons : l.id = id IN
            IF lesson.teacher # user.id
            THEN /\ response' = [op |-> "approve", id |-> id, code |-> 403, status |-> "none"]
                 /\ UNCHANGED lessons
            ELSE IF lesson.status = VOID
            THEN /\ lessons' = Lesson_save(lessons, [lesson EXCEPT !.status = APPROVED])
                 /\ response' = [op |-> "approve", id |-> id, code |-> 200, status |-> APPROVED]
            ELSE /\ response' = [op |-> "approve", id |-> id, code |-> 400, status |-> "none"]
                 /\ UNCHANGED lessons
    /\ UNCHANGED <<schedules, now, pc, req, errors, checks, availability_vars, user_vars, lesson_obj>>

\* An hour passes.
Tick ==
    /\ now < SystemEnd
    /\ now' = now + Hour
    /\ UNCHANGED <<schedules, lessons, pc, req, errors, checks, response, availability_vars, user_vars, lesson_obj>>

Next ==
    \/ \E p \in Procs : CreateIsValid(p)
    \/ \E p \in Procs : PerformCreate(p)
    \/ \E p \in Procs : Respond(p)
    \/ \E u \in Users : \E l \in lessons : CancelLesson(u, l.id)
    \/ \E u \in Users : \E l \in lessons : ApproveLesson(u, l.id)
    \/ Tick

Spec == Init /\ [][Next]_vars

(***************************************************************************)
(* The availability endpoint and a booking of a slot it offers: one        *)
(* availability request over dates of a Sunday (day 6) and the Monday      *)
(* after it (day 7), then one create request for a slot of the answer.     *)
(* The Schedule table holds any rows its columns and unique_together       *)
(* admit (the admin site writes schedules without the overlap check of the *)
(* schedule endpoint).                                                     *)
(***************************************************************************)
AvailabilitySchedules ==
    windows_of(1, "sunday", {hms(13, 0, 0), hms(13, 30, 0), hms(14, 30, 0), hms(16, 0, 0)})
    \cup windows_of(1, "sunday", {hms(22, 0, 0), T235959})
    \cup windows_of(1, "monday", {T000000, hms(1, 0, 0)})

AvailabilityLessons ==
    { [teacher |-> 1, student |-> 1, start_time |-> at(6, hms(16, 0, 0)),
       end_time |-> Some(at(6, hms(17, 0, 0))), status |-> st] : st \in LessonStatus }
    \cup
    { [teacher |-> 1, student |-> 1, start_time |-> at(6, hms(14, 0, 0)),
       end_time |-> Some(at(6, hms(15, 0, 0))), status |-> st]
        : st \in {VOID, CANCELLED_BY_TEACHER} }
    \cup
    { [teacher |-> 1, student |-> 1, start_time |-> at(6, hms(14, 0, 0)),
       end_time |-> NULL, status |-> VOID],
      [teacher |-> 1, student |-> 1, start_time |-> at(6, hms(23, 0, 0)),
       end_time |-> Some(at(7, hms(1, 0, 0))), status |-> APPROVED],
      [teacher |-> 2, student |-> 1, start_time |-> at(6, hms(16, 0, 0)),
       end_time |-> Some(at(6, hms(17, 0, 0))), status |-> VOID] }

AvailabilityNow == {at(6, hms(12, 0, 0)), at(6, hms(13, 30, 0))}

AvailabilityQueries ==
    { [teacher |-> 1, date_from |-> f, date_to |-> t] : f \in {6, 7}, t \in {6, 7} }

InitAvailability ==
    /\ schedules \in {S \in SUBSET AvailabilitySchedules : Cardinality(S) <= MaxSchedules}
    /\ lessons \in lesson_tables(AvailabilityLessons, MaxLessons)
    /\ now \in AvailabilityNow
    /\ pc = [p \in Procs |-> "idle"]
    /\ req = [p \in Procs |-> NoRequest]
    /\ errors = [p \in Procs |-> {}]
    /\ checks = [p \in Procs |-> <<>>]
    /\ response = NoResponse
    /\ query = NoQuery
    /\ utcoffset \in UtcOffsets
    /\ availability = NoAvailability
    /\ users = {}
    /\ user_seq = 0
    /\ tokens = {}
    /\ user_request = NoUserRequest
    /\ lesson_obj = [p \in Procs |-> NoInstance]

\* TeacherAvailabilityView.get for the query q.
Get(q) ==
    /\ ~availability.done
    /\ query' = q
    /\ \E ordered \in order_by_start_time({w \in schedules : w.teacher = q.teacher}) :
          availability' =
            [ done |-> TRUE,
              result |-> get_availability(
                  ordered,
                  booked_slots(booked_lessons(lessons, q.teacher, q.date_from, q.date_to),
                               utcoffset),
                  q.date_from, q.date_to, now) ]
    /\ UNCHANGED <<schedules, lessons, now, pc, req, errors, checks, response, utcoffset,
                   user_vars, lesson_obj>>

\* A client asks to book a slot of the answer, for 1 or 2 hours: is_valid() of the
\* create request.
BookOffered(p) ==
    /\ availability.done
    /\ \E i \in 1..Len(availability.result) :
       \E j \in 1..Len(availability.result[i].slots) :
       \E d \in duration_choices :
          IsValid(p, [ teacher |-> query.teacher, student |-> 1,
                       start_time |-> availability.result[i].slots[j].start_time,
                       duration_hours |-> d ])

NextAvailability ==
    \/ \E q \in AvailabilityQueries : Get(q)
    \/ BookOffered(1)

SpecAvailability == InitAvailability /\ [][NextAvailability]_vars

(***************************************************************************)
(* The schedule endpoints of ScheduleViewSet: create, update (PUT) and     *)
(* partial update (PATCH) of a teacher's windows, one request at a time,   *)
(* starting from an empty Schedule table.  The data of a request gives     *)
(* each of weekday, start_time and end_time or leaves it out (NULL).       *)
(***************************************************************************)
\* ScheduleSerializer.validate with > in place of >= (sensitivity of C22).
ScheduleSerializer_validate_equal_allowed(data) ==
    ~( /\ ~IsNull(data.start_time)
       /\ ~IsNull(data.end_time)
       /\ data.start_time[1] > data.end_time[1] )

\* ScheduleSerializer.validate: TRUE when it raises no error; the test is made only when
\* start_time and end_time are both in the data.
ScheduleSerializer_validate(data) ==
    ~( /\ ~IsNull(data.start_time)
       /\ ~IsNull(data.end_time)
       /\ data.start_time[1] >= data.end_time[1] )

\* serializer.is_valid() of ScheduleSerializer: weekday, start_time and end_time are
\* required unless the update is partial; then validate.
schedule_is_valid(data, partial) ==
    /\ partial \/ (~IsNull(data.weekday) /\ ~IsNull(data.start_time) /\ ~IsNull(data.end_time))
    /\ ScheduleSerializer_validate(data)

\* overlapping_schedules finding only the rows that contain the new window (sensitivity
\* of C21).
overlapping_schedules_containing(scheds, teacher, weekday_, start_time, end_time, excluded) ==
    { w \in scheds \ excluded : /\ w.teacher = teacher
                                /\ w.weekday = weekday_
                                /\ w.start_time <= start_time
                                /\ w.end_time >= end_time }

\* overlapping_schedules of perform_create: Schedule.objects.filter(teacher=, weekday=,
\* start_time__lt=end_time, end_time__gt=start_time), without the row being updated.
overlapping_schedules(scheds, teacher, weekday_, start_time, end_time, excluded) ==
    { w \in scheds \ excluded : /\ w.teacher = teacher
                                /\ w.weekday = weekday_
                                /\ w.start_time < end_time
                                /\ w.end_time > start_time }

\* ScheduleViewSet.perform_create (also perform_update) for teacher on valid data, with
\* instance the rows being updated (none for a create): the response code, what
\* happened and the table afterwards.  Reading a key that the data leaves out raises KeyError (code 500).
perform_create(scheds, teacher, data, instance) ==
    IF IsNull(data.start_time) \/ IsNull(data.end_time) \/ IsNull(data.weekday)
    THEN [code |-> 500, detail |-> "KeyError", schedules |-> scheds]
    ELSE IF overlapping_schedules(scheds, teacher, data.weekday[1], data.start_time[1],
                                  data.end_time[1], instance) # {}
    THEN [code |-> 400, detail |-> "overlaps", schedules |-> scheds]
    ELSE [code |-> IF instance = {} THEN 201 ELSE 200, detail |-> "saved",
          schedules |-> (scheds \ instance)
                        \cup { [teacher |-> teacher, weekday |-> data.weekday[1],
                                start_time |-> data.start_time[1],
                                end_time |-> data.end_time[1]] }]

ScheduleTeachers == {1, 2}
ScheduleWeekdays == {"sunday", "monday"}
ScheduleTimes == {hms(13, 0, 0), hms(14, 0, 0), hms(15, 0, 0), hms(16, 0, 0)}
\* The data of a create or update request, and of a partial update.
ScheduleData ==
    { [weekday |-> Some(d), start_time |-> Some(a), end_time |-> Some(b)]
        : d \in ScheduleWeekdays, a \in ScheduleTimes, b \in ScheduleTimes }
SchedulePartialData ==
    ScheduleData
    \cup { [weekday |-> NULL, start_time |-> Some(a), end_time |-> NULL] : a \in ScheduleTimes }
    \cup { [weekday |-> NULL, start_time |-> NULL, end_time |-> Some(b)] : b \in ScheduleTimes }
    \cup { [weekday |-> NULL, start_time |-> Some(a), end_time |-> Some(b)]
             : a \in ScheduleTimes, b \in ScheduleTimes }

InitSchedule ==
    /\ schedules = {}
    /\ lessons = {}
    /\ now = SystemStart
    /\ pc = [p \in Procs |-> "idle"]
    /\ req = [p \in Procs |-> NoRequest]
    /\ errors = [p \in Procs |-> {}]
    /\ checks = [p \in Procs |-> <<>>]
    /\ response = NoResponse
    /\ query = NoQuery
    /\ utcoffset = EET
    /\ availability = NoAvailability
    /\ users = {}
    /\ user_seq = 0
    /\ tokens = {}
    /\ user_request = NoUserRequest
    /\ lesson_obj = [p \in Procs |-> NoInstance]

\* The answer of a schedule request with the outcome out of perform_create.
schedule_response(op, out) == [op |-> op, id |-> 0, code |-> out.code, status |-> out.detail]

\* ScheduleViewSet.create by teacher.
ScheduleCreate(teacher, data) ==
    /\ Cardinality(schedules) < MaxSchedules
    /\ LET out == IF schedule_is_valid(data, FALSE)
                  THEN perform_create(schedules, teacher, data, {})
                  ELSE [code |-> 400, detail |-> "invalid", schedules |-> schedules]
       IN  /\ schedules' = out.schedules
           /\ response' = schedule_response("schedule_create", out)
    /\ UNCHANGED <<lessons, now, pc, req, errors, checks, availability_vars, user_vars, lesson_obj>>

\* ScheduleViewSet.update (partial = FALSE) and partial_update (partial = TRUE) by
\* teacher on the stored row w: a row of another teacher is not in get_queryset (404).
ScheduleUpdate(teacher, w, data, partial) ==
    /\ w \in schedules
    /\ LET op == IF partial THEN "schedule_partial_update" ELSE "schedule_update"
           out == IF w.teacher # teacher
                  THEN [code |-> 404, detail |-> "not found", schedules |-> schedules]
                  ELSE IF schedule_is_valid(data, partial)
                  THEN perform_create(schedules, teacher, data, {w})
                  ELSE [code |-> 400, detail |-> "invalid", schedules |-> schedules]
       IN  /\ schedules' = out.schedules
           /\ response' = schedule_response(op, out)
    /\ UNCHANGED <<lessons, now, pc, req, errors, checks, availability_vars, user_vars, lesson_obj>>

NextSchedule ==
    \/ \E t \in ScheduleTeachers : \E data \in ScheduleData : ScheduleCreate(t, data)
    \/ \E t \in ScheduleTeachers : \E w \in schedules : \E data \in ScheduleData :
          ScheduleUpdate(t, w, data, FALSE)
    \/ \E t \in ScheduleTeachers : \E w \in schedules : \E data \in SchedulePartialData :
          ScheduleUpdate(t, w, data, TRUE)

SpecSchedule == InitSchedule /\ [][NextSchedule]_vars

(***************************************************************************)
(* The registration and activation endpoints (user application).           *)
(*                                                                         *)
(* A user row is [id, email, role, is_active].  A token is the payload of  *)
(* a JWT, [user_id, purpose, exp], with signed = TRUE when it carries the  *)
(* signature of SECRET_KEY.  tokens holds the tokens that have left the    *)
(* server in an email; a caller may present any of them, or a token it     *)
(* made up, which carries no valid signature.                              *)
(***************************************************************************)
MaxUsers == 2
MaxTokens == 2
MaxUserTicks == 2

ACTIVATION_TOKEN_LIFETIME_HOURS == 24
PASSWORD_RESET_TOKEN_LIFETIME_HOURS == 1

\* The step of the clock between two requests, in hours.
UserTickHours == 16

Emails == {"a@x.com", "a@X.com", "b@x.com"}
Roles == {ROLE_STUDENT, ROLE_TEACHER}
Failures == {"none", "token", "email"}

\* BaseUserManager.normalize_email lowercases the domain part.
normalize_email(email) == IF email = "a@X.com" THEN "a@x.com" ELSE email

\* str.lower of an address.
lower(email) == IF email = "a@X.com" THEN "a@x.com" ELSE email

generate_activation_token(user, now_) ==
    [user_id |-> user.id, purpose |-> "activation",
     exp |-> now_ + hours(ACTIVATION_TOKEN_LIFETIME_HOURS), signed |-> TRUE]

password_reset_token(user, now_) ==
    [user_id |-> user.id, purpose |-> "password_reset",
     exp |-> now_ + hours(PASSWORD_RESET_TOKEN_LIFETIME_HOURS), signed |-> TRUE]

\* UserRegistrationSerializer.validate_email: an exact match on the address
\* as it was sent.
UserRegistrationSerializer_validate_email(usrs, email) ==
    ~(\E u \in usrs : u.email = email)

\* Mutant (C30): the user created by a failed registration is kept.
UserRegistrationSerializer_create_keeps_user(usrs, seq, email, role, failure, now_) ==
    LET user == [id |-> seq + 1, email |-> normalize_email(email), role |-> role,
                 is_active |-> FALSE]
    IN  IF \E u \in usrs : u.email = user.email
        THEN [code |-> 500, detail |-> "IntegrityError", users |-> usrs, seq |-> seq,
              sent |-> {}, id |-> 0]
        ELSE IF failure # "none"
        THEN [code |-> 400, detail |-> "activation_email_failed",
              users |-> usrs \cup {user}, seq |-> seq + 1, sent |-> {}, id |-> 0]
        ELSE [code |-> 201, detail |-> role, users |-> usrs \cup {user}, seq |-> seq + 1,
              sent |-> {generate_activation_token(user, now_)}, id |-> user.id]

\* UserRegistrationSerializer.create: the row is inserted inactive under the
\* normalized address (the unique index rejects a second row with it); when
\* the token or the email fails the row is deleted again.  The primary key
\* that was drawn is not given out again.
UserRegistrationSerializer_create(usrs, seq, email, role, failure, now_) ==
    LET user == [id |-> seq + 1, email |-> normalize_email(email), role |-> role,
                 is_active |-> FALSE]
    IN  IF \E u \in usrs : u.email = user.email
        THEN [code |-> 500, detail |-> "IntegrityError", users |-> usrs, seq |-> seq,
              sent |-> {}, id |-> 0]
        ELSE IF failure # "none"
        THEN [code |-> 400, detail |-> "activation_email_failed",
              users |-> (usrs \cup {user}) \ {user}, seq |-> seq + 1, sent |-> {},
              id |-> 0]
        ELSE [code |-> 201, detail |-> role, users |-> usrs \cup {user}, seq |-> seq + 1,
              sent |-> {generate_activation_token(user, now_)}, id |-> user.id]

\* jwt.decode with verify_exp: the signature first, then the expiry.
jwt_decode(token, now_) ==
    IF ~token.signed THEN "InvalidTokenError"
    ELSE IF token.exp <= now_ THEN "ExpiredSignatureError"
    ELSE "ok"

\* Mutant (C23): the expiry of the token is not verified.
ActivateAccountView_get_without_verify_exp(usrs, token, now_) ==
    IF ~token.signed
    THEN [code |-> 400, detail |-> "invalid", users |-> usrs, id |-> 0]
    ELSE IF token.purpose # "activation"
    THEN [code |-> 400, detail |-> "invalid", users |-> usrs, id |-> 0]
    ELSE IF ~(\E u \in usrs : u.id = token.user_id)
    THEN [code |-> 500, detail |-> "Http404", users |-> usrs, id |-> 0]
    ELSE LET user == CHOOSE u \in usrs : u.id = token.user_id
         IN  IF user.is_active
             THEN [code |-> 200, detail |-> "already activated", users |-> usrs,
                   id |-> user.id]
             ELSE [code |-> 200, detail |-> "activated",
                   users |-> (usrs \ {user}) \cup {[user EXCEPT !.is_active = TRUE]},
                   id |-> user.id]

\* ActivateAccountView.get.
ActivateAccountView_get(usrs, token, now_) ==
    IF jwt_decode(token, now_) = "ExpiredSignatureError"
    THEN [code |-> 400, detail |-> "expired", users |-> usrs, id |-> 0]
    ELSE IF jwt_decode(token, now_) = "InvalidTokenError"
    THEN [code |-> 400, detail |-> "invalid", users |-> usrs, id |-> 0]
    ELSE IF token.purpose # "activation"
    THEN [code |-> 400, detail |-> "invalid", users |-> usrs, id |-> 0]
    ELSE IF token.user_id = 0
    THEN [code |-> 400, detail |-> "invalid", users |-> usrs, id |-> 0]
    ELSE IF ~(\E u \in usrs : u.id = token.user_id)
    THEN [code |-> 500, detail |-> "Http404", users |-> usrs, id |-> 0]
    ELSE LET user == CHOOSE u \in usrs : u.id = token.user_id
         IN  IF user.is_active
             THEN [code |-> 200, detail |-> "already activated", users |-> usrs,
                   id |-> user.id]
             ELSE [code |-> 200, detail |-> "activated",
                   users |-> (usrs \ {user}) \cup {[user EXCEPT !.is_active = TRUE]},
                   id |-> user.id]

\* The tokens a caller can make up: any payload, without the signature.
ForgedTokens ==
    { [user_id |-> i, purpose |-> "activation",
       exp |-> SystemStart + hours(UserTickHours) * (MaxUserTicks + 1), signed |-> FALSE] :
        i \in 1..MaxUsers }

InitUser ==
    /\ schedules = {}
    /\ lessons = {}
    /\ now = SystemStart
    /\ pc = [p \in Procs |-> "idle"]
    /\ req = [p \in Procs |-> NoRequest]
    /\ errors = [p \in Procs |-> {}]
    /\ checks = [p \in Procs |-> <<>>]
    /\ response = NoResponse
    /\ query = NoQuery
    /\ utcoffset = EET
    /\ availability = NoAvailability
    /\ users = {}
    /\ user_seq = 0
    /\ tokens = {}
    /\ user_request = NoUserRequest
    /\ lesson_obj = [p \in Procs |-> NoInstance]

user_unchanged ==
    UNCHANGED <<schedules, lessons, pc, req, errors, checks, availability_vars, lesson_obj>>

\* POST register/ (UserRegistrationView with UserRegistrationSerializer).
Register(email, role, failure) ==
    /\ user_seq < MaxUsers
    /\ Cardinality(tokens) < MaxTokens
    /\ user_request' = [NoUserRequest EXCEPT !.op = "register", !.email = email,
                                             !.role = role, !.failure = failure]
    /\ IF ~UserRegistrationSerializer_validate_email(users, email)
       THEN /\ response' = [op |-> "register", id |-> 0, code |-> 400,
                            status |-> "email exists"]
            /\ UNCHANGED <<users, user_seq, tokens>>
       ELSE LET out == UserRegistrationSerializer_create(users, user_seq, email, role,
                                                         failure, now)
            IN  /\ users' = out.users
                /\ user_seq' = out.seq
                /\ tokens' = tokens \cup out.sent
                /\ response' = [op |-> "register", id |-> out.id, code |-> out.code,
                                status |-> out.detail]
    /\ UNCHANGED now
    /\ user_unchanged

\* GET activate/<token>/ (ActivateAccountView.get).
Activate(token) ==
    LET out == ActivateAccountView_get(users, token, now)
    IN  /\ user_request' = [NoUserRequest EXCEPT !.op = "activate", !.token = token]
        /\ users' = out.users
        /\ response' = [op |-> "activate", id |-> out.id, code |-> out.code,
                        status |-> out.detail]
        /\ UNCHANGED <<now, user_seq, tokens>>
        /\ user_unchanged

\* POST resend-activation/ (ResendActivationEmailView.post).  The serializer
\* hands the view a user of the table for the address; the view sends that
\* user a new activation token and writes nothing to the table.
ResendActivation(user, failure) ==
    /\ user \in users
    /\ Cardinality(tokens) < MaxTokens
    /\ user_request' = [NoUserRequest EXCEPT !.op = "resend", !.email = user.email,
                                             !.failure = failure]
    /\ IF failure # "none"
       THEN /\ response' = [op |-> "resend", id |-> user.id, code |-> 500,
                            status |-> "resend failed"]
            /\ UNCHANGED tokens
       ELSE /\ response' = [op |-> "resend", id |-> user.id, code |-> 200,
                            status |-> "resent"]
            /\ tokens' = tokens \cup {generate_activation_token(user, now)}
    /\ UNCHANGED <<now, users, user_seq>>
    /\ user_unchanged

\* POST password-reset/ (PasswordResetRequestView with PasswordResetSerializer):
\* only an active user is sent a token, and the token is a password_reset one.
PasswordResetRequest(email) ==
    /\ Cardinality(tokens) < MaxTokens
    /\ user_request' = [NoUserRequest EXCEPT !.op = "password_reset", !.email = email]
    /\ IF \E u \in users : lower(u.email) = lower(email) /\ u.is_active
       THEN LET user == CHOOSE u \in users : lower(u.email) = lower(email) /\ u.is_active
            IN  /\ tokens' = tokens \cup {password_reset_token(user, now)}
                /\ response' = [op |-> "password_reset", id |-> user.id, code |-> 200,
                                status |-> "sent"]
       ELSE /\ response' = [op |-> "password_reset", id |-> 0, code |-> 400,
                            status |-> "no active user"]
            /\ UNCHANGED tokens
    /\ UNCHANGED <<now, users, user_seq>>
    /\ user_unchanged

\* Time passes between two requests.
TickUser ==
    /\ now < SystemStart + hours(UserTickHours) * MaxUserTicks
    /\ now' = now + hours(UserTickHours)
    /\ user_request' = [NoUserRequest EXCEPT !.op = "tick"]
    /\ UNCHANGED <<users, user_seq, tokens, response>>
    /\ user_unchanged

NextUser ==
    \/ \E email \in Emails, role \in Roles, failure \in Failures :
           Register(email, role, failure)
    \/ \E token \in tokens \cup ForgedTokens : Activate(token)
    \/ \E user \in users, failure \in {"none", "email"} : ResendActivation(user, failure)
    \/ \E email \in Emails : PasswordResetRequest(email)
    \/ TickUser

SpecUser == InitUser /\ [][NextUser]_vars

(***************************************************************************)
(* cancel_lesson, approve_lesson and update_status_if_expired on the       *)
(* stored lessons, with requests handled at the same time: a handler reads *)
(* the lesson with get_object, and tests and saves the object it read in a *)
(* later step; no transaction or row lock spans the two.                   *)
(***************************************************************************)
MaxStatusTicks == 2
\* The step of the clock, in hours.
StatusTickHours == 3

InitStatus ==
    /\ schedules = {}
    /\ lessons \in lesson_tables(SystemLessons, MaxLessons)
    /\ now = SystemStart
    /\ pc = [p \in Procs |-> "idle"]
    /\ req = [p \in Procs |-> NoRequest]
    /\ errors = [p \in Procs |-> {}]
    /\ checks = [p \in Procs |-> <<>>]
    /\ response = NoResponse
    /\ query = NoQuery
    /\ utcoffset = EET
    /\ availability = NoAvailability
    /\ users = {}
    /\ user_seq = 0
    /\ tokens = {}
    /\ user_request = NoUserRequest
    /\ lesson_obj = [p \in Procs |-> NoInstance]

status_unchanged ==
    UNCHANGED <<schedules, now, req, errors, checks, availability_vars, user_vars>>

\* lesson = self.get_object() of cancel_lesson and approve_lesson: the row is read
\* from the queryset of the caller; approve_lesson is open to teachers only.
GetObject(p, op, user, id) ==
    /\ pc[p] = "idle"
    /\ IF op = "approve" /\ user.role # ROLE_TEACHER
       THEN /\ response' = [op |-> op, id |-> id, code |-> 403, status |-> "none"]
            /\ UNCHANGED <<pc, lesson_obj>>
       ELSE IF ~\E l \in get_queryset(lessons, user) : l.id = id
       THEN /\ response' = [op |-> op, id |-> id, code |-> 404, status |-> "none"]
            /\ UNCHANGED <<pc, lesson_obj>>
       ELSE /\ lesson_obj' = [lesson_obj EXCEPT ![p] =
                               [user |-> user, lesson |-> CHOOSE l \in lessons : l.id = id]]
            /\ pc' = [pc EXCEPT ![p] = op]
            /\ UNCHANGED response
    /\ UNCHANGED lessons
    /\ status_unchanged

\* The rest of cancel_lesson, on the object that was read.
CancelSave(p) ==
    /\ pc[p] = "cancel"
    /\ LET lesson == lesson_obj[p].lesson
           user == lesson_obj[p].user
       IN  IF lesson.status \notin {VOID, APPROVED}
           THEN /\ response' = [op |-> "cancel", id |-> lesson.id, code |-> 400,
                                status |-> "none"]
                /\ UNCHANGED lessons
           ELSE IF lesson.start_time - now < hours(LESSON_CANCEL_DEADLINE_HOURS)
           THEN /\ response' = [op |-> "cancel", id |-> lesson.id, code |-> 400,
                                status |-> "none"]
                /\ UNCHANGED lessons
           ELSE IF new_status_val(lesson, user) = "none"
           THEN /\ response' = [op |-> "cancel", id |-> lesson.id, code |-> 403,
                                status |-> "none"]
                /\ UNCHANGED lessons
           ELSE /\ lessons' = Lesson_save(lessons,
                                  [lesson EXCEPT !.status = new_status_val(lesson, user)])
                /\ response' = [op |-> "cancel", id |-> lesson.id, code |-> 200,
                                status |-> new_status_val(lesson, user)]
    /\ pc' = [pc EXCEPT ![p] = "idle"]
    /\ lesson_obj' = [lesson_obj EXCEPT ![p] = NoInstance]
    /\ status_unchanged

\* The rest of approve_lesson, on the object that was read.
ApproveSave(p) ==
    /\ pc[p] = "approve"
    /\ LET lesson == lesson_obj[p].lesson
           user == lesson_obj[p].user
       IN  IF lesson.teacher # user.id
           THEN /\ response' = [op |-> "approve", id |-> lesson.id, code |-> 403,
                                status |-> "none"]
                /\ UNCHANGED lessons
           ELSE IF lesson.status = VOID
           THEN /\ lessons' = Lesson_save(lessons, [lesson EXCEPT !.status = APPROVED])
                /\ response' = [op |-> "approve", id |-> lesson.id, code |-> 200,
                                status |-> APPROVED]
           ELSE /\ response' = [op |-> "approve", id |-> lesson.id, code |-> 400,
                                status |-> "none"]
                /\ UNCHANGED lessons
    /\ pc' = [pc EXCEPT ![p] = "idle"]
    /\ lesson_obj' = [lesson_obj EXCEPT ![p] = NoInstance]
    /\ status_unchanged

\* Lesson.update_status_if_expired on a lesson as it is stored.
update_status_if_expired(lsns, lesson, now_) ==
    LET expired == IF ~IsNull(lesson.end_time) THEN now_ > lesson.end_time[1]
                   ELSE now_ > lesson.start_time + Hour
    IN  IF expired /\ lesson.status \in {VOID, APPROVED}
        THEN Lesson_save(lsns, [lesson EXCEPT !.status = DONE])
        ELSE lsns

UpdateStatusIfExpired(lesson) ==
    /\ lesson \in lessons
    /\ lessons' = update_status_if_expired(lessons, lesson, now)
    /\ response' = [op |-> "expire", id |-> lesson.id, code |-> 0, status |-> "none"]
    /\ UNCHANGED <<pc, lesson_obj>>
    /\ status_unchanged

\* Time passes.
TickStatus ==
    /\ now < SystemStart + hours(StatusTickHours) * MaxStatusTicks
    /\ now' = now + hours(StatusTickHours)
    /\ UNCHANGED <<schedules, lessons, pc, req, errors, checks, response,
                   availability_vars, user_vars, lesson_obj>>

NextStatus ==
    \/ \E p \in Procs, op \in {"cancel", "approve"}, user \in Users, l \in lessons :
           GetObject(p, op, user, l.id)
    \/ \E p \in Procs : CancelSave(p)
    \/ \E p \in Procs : ApproveSave(p)
    \/ \E l \in lessons : UpdateStatusIfExpired(l)
    \/ TickStatus

SpecStatus == InitStatus /\ [][NextStatus]_vars

\* cancel_lesson and approve_lesson handled one call at a time on the stored lessons.
NextSequential ==
    \/ \E u \in Users : \E l \in lessons : CancelLesson(u, l.id)
    \/ \E u \in Users : \E l \in lessons : ApproveLesson(u, l.id)
    \/ Tick

SpecSequential == InitStatus /\ [][NextSequential]_vars

(***************************************************************************)
(* Vocabulary of the properties.                                           *)
(***************************************************************************)
\* The check c was evaluated by the validation of handler p.
Evaluated(p, c) == \E i \in 1..Len(checks[p]) : checks[p][i] = c
\* The end of the interval a request asks for.
EndOf(r) == r.start_time + hours(r.duration_hours)
\* A stored lesson with an explicit end that blocks and intersects [from_, to_).
Intersects(l, teacher, from_, to_) ==
    /\ l.teacher = teacher
    /\ l.status \in {VOID, APPROVED}
    /\ ~IsNull(l.end_time)
    /\ l.start_time < to_
    /\ l.end_time[1] > from_
\* A stored blocking lesson intersects [from_, to_), a lesson without an end counting as
\* one hour long.
IntersectsDefaulted(l, teacher, from_, to_) ==
    /\ l.teacher = teacher
    /\ l.status \in {VOID, APPROVED}
    /\ l.start_time < to_
    /\ (IF IsNull(l.end_time) THEN l.start_time + Hour ELSE l.end_time[1]) > from_
\* The request is in the future, on the hour and one or two hours long.
FutureAligned(r) ==
    /\ r.start_time > now
    /\ r.start_time % Hour = 0
    /\ r.duration_hours \in {1, 2}
\* A window of the teacher on the weekday of timestamp t that spans the times of day
\* from_ .. to_.
WindowSpans(teacher, t, from_, to_) ==
    \E w \in schedules : /\ w.teacher = teacher
                         /\ w.weekday = WEEKDAYS[((t \div Day) % 7) + 1]
                         /\ w.start_time <= from_
                         /\ w.end_time >= to_
\* The hour starting at timestamp t lies inside a window of the teacher on the weekday
\* of t; an hour that ends at midnight lies inside a window that runs to 23:59:59.
HourCovered(teacher, t) ==
    WindowSpans(teacher, t, t % Day,
                IF (t % Day) + Hour = Day THEN hms(23, 59, 59) ELSE (t % Day) + Hour)
\* The hours of the interval of a request.
HoursOf(r) == {r.start_time + hours(i) : i \in 0..(r.duration_hours - 1)}

(***************************************************************************)
(* Properties of the validator (SpecValidate).                             *)
(***************************************************************************)

\* C1: whenever validate runs on a request of 1 or 2 hours and a stored lesson of the
\* same teacher with status void or approved has start < end-of-request and
\* end > start-of-request, the request is rejected as SlotTaken and the coverage check
\* is not evaluated at all, whatever the teacher's windows are.
C1_OverlapIsSlotTaken ==
    \A p \in Procs :
        ( /\ Evaluated(p, "overlap")
          /\ req[p].duration_hours \in {1, 2}
          /\ \E l \in lessons : Intersects(l, req[p].teacher, req[p].start_time, EndOf(req[p])) )
        => /\ pc[p] = "invalid"
           /\ errors[p] = {SlotTaken}
           /\ ~Evaluated(p, "coverage")

\* C1 happens: a request that the teacher's windows cover is rejected as SlotTaken
\* because of an overlapping approved lesson.
C1_Witness ==
    \E p \in Procs :
        /\ errors[p] = {SlotTaken}
        /\ fits_schedule(schedules, req[p].teacher, req[p].start_time, req[p].duration_hours)
        /\ \E l \in lessons : /\ l.status = APPROVED
                              /\ Intersects(l, req[p].teacher, req[p].start_time, EndOf(req[p]))

\* C2 as stated: a future, hour-aligned request of 1 or 2 hours that no blocking lesson
\* overlaps and for which one window on the weekday of start has
\* start_time <= start.time() and end_time >= end.time() is accepted.
C2_AsStated ==
    \A p \in Procs :
        ( /\ pc[p] # "idle"
          /\ FutureAligned(req[p])
          /\ ~\E l \in lessons :
                IntersectsDefaulted(l, req[p].teacher, req[p].start_time, EndOf(req[p]))
          /\ WindowSpans(req[p].teacher, req[p].start_time,
                         req[p].start_time % Day, EndOf(req[p]) % Day) )
        => pc[p] = "valid"

\* C2 amended: the same, for a request whose interval does not cross midnight
\* (end.time() > start.time()).
C2_CoveredIsAccepted ==
    \A p \in Procs :
        ( /\ pc[p] # "idle"
          /\ FutureAligned(req[p])
          /\ EndOf(req[p]) % Day > req[p].start_time % Day
          /\ ~\E l \in lessons :
                IntersectsDefaulted(l, req[p].teacher, req[p].start_time, EndOf(req[p]))
          /\ WindowSpans(req[p].teacher, req[p].start_time,
                         req[p].start_time % Day, EndOf(req[p]) % Day) )
        => pc[p] = "valid"

\* C2 happens: a 2-hour request inside one window is accepted while the teacher has a
\* stored lesson that does not overlap it.
C2_Witness ==
    \E p \in Procs :
        /\ pc[p] = "valid"
        /\ req[p].duration_hours = 2
        /\ EndOf(req[p]) % Day > req[p].start_time % Day
        /\ WindowSpans(req[p].teacher, req[p].start_time,
                       req[p].start_time % Day, EndOf(req[p]) % Day)
        /\ \E l \in lessons : l.teacher = req[p].teacher

\* C6: for a request that validate runs on, whose interval crosses midnight (end time of
\* day <= start time of day) and that no blocking lesson overlaps: it is accepted exactly
\* when (a) a window on the weekday of start spans start.time() .. 23:59:59 and (b) a
\* window on the weekday of the next date (Monday after Sunday) spans 00:00:00 ..
\* end.time(); otherwise it is rejected as OutsideAvailability.
C6_CrossingNeedsBothWindows ==
    \A p \in Procs :
        ( /\ Evaluated(p, "overlap")
          /\ EndOf(req[p]) % Day <= req[p].start_time % Day
          /\ ~\E l \in lessons :
                IntersectsDefaulted(l, req[p].teacher, req[p].start_time, EndOf(req[p])) )
        => LET a == WindowSpans(req[p].teacher, req[p].start_time,
                                req[p].start_time % Day, hms(23, 59, 59))
               b == WindowSpans(req[p].teacher, req[p].start_time + Day,
                                hms(0, 0, 0), EndOf(req[p]) % Day)
           IN /\ (pc[p] = "valid") <=> (a /\ b)
              /\ ~(a /\ b) => errors[p] = {OutsideAvailability}

\* C6 happens: a Sunday 23:00 request of 2 hours is accepted with a Sunday window to
\* 23:59:59 and a Monday window from 00:00:00.
C6_Witness ==
    \E p \in Procs :
        /\ pc[p] = "valid"
        /\ req[p].duration_hours = 2
        /\ day_name(req[p].start_time) = "sunday"
        /\ req[p].start_time % Day = hms(23, 0, 0)
        /\ \E w \in schedules : w.weekday = "monday" /\ w.end_time >= hms(1, 0, 0)

\* C7: for a 2-hour request that validate runs on, that no blocking lesson overlaps,
\* that does not cross midnight and that no single window spans: it is accepted when a
\* window of the weekday spans the first hour and a window of the weekday spans the
\* second hour, and rejected as OutsideAvailability when exactly one of the two hours
\* is spanned.
C7_TwoWindowFallback ==
    \A p \in Procs :
        ( /\ Evaluated(p, "overlap")
          /\ req[p].duration_hours = 2
          /\ EndOf(req[p]) % Day > req[p].start_time % Day
          /\ ~\E l \in lessons :
                IntersectsDefaulted(l, req[p].teacher, req[p].start_time, EndOf(req[p]))
          /\ ~WindowSpans(req[p].teacher, req[p].start_time,
                          req[p].start_time % Day, EndOf(req[p]) % Day) )
        => LET firstHour == WindowSpans(req[p].teacher, req[p].start_time,
                                    req[p].start_time % Day, (req[p].start_time % Day) + Hour)
               secondHour == WindowSpans(req[p].teacher, req[p].start_time,
                                     (req[p].start_time % Day) + Hour, EndOf(req[p]) % Day)
           IN /\ (firstHour /\ secondHour) => pc[p] = "valid"
              /\ (firstHour # secondHour) => errors[p] = {OutsideAvailability}

\* C7 happens: a 2-hour request is accepted although no single window spans it.
C7_Witness ==
    \E p \in Procs :
        /\ pc[p] = "valid"
        /\ req[p].duration_hours = 2
        /\ EndOf(req[p]) % Day > req[p].start_time % Day
        /\ ~WindowSpans(req[p].teacher, req[p].start_time,
                        req[p].start_time % Day, EndOf(req[p]) % Day)

\* C8: an accepted request has every hour of its interval inside a window of the
\* teacher on the weekday of that hour; and a request that reaches the coverage check
\* with an hour that lies in no window is rejected as OutsideAvailability.
C8_AcceptedIsCovered ==
    \A p \in Procs :
        /\ pc[p] = "valid" => \A h \in HoursOf(req[p]) : HourCovered(req[p].teacher, h)
        /\ ( Evaluated(p, "coverage")
             /\ \E h \in HoursOf(req[p]) : ~HourCovered(req[p].teacher, h) )
           => errors[p] = {OutsideAvailability}

\* C8 happens: a 2-hour request with its two hours on two weekdays is accepted.
C8_Witness ==
    \E p \in Procs :
        /\ pc[p] = "valid"
        /\ req[p].duration_hours = 2
        /\ day_name(req[p].start_time) # day_name(req[p].start_time + Hour)

C10_PastOrNowRejected ==
    \A p \in Procs :
        pc[p] # "idle" => ((PastStart \in errors[p]) <=> ~(req[p].start_time > now))

\* The rules a request violates: a start earlier than now, a start off the hour, a
\* duration other than 1 or 2 hours, a blocking lesson with an explicit end intersecting
\* the interval, an hour of the interval outside the teacher's windows.
ViolatedRules(r) ==
    (IF r.start_time < now THEN {PastStart} ELSE {})
    \cup (IF r.start_time % Hour # 0 THEN {MisalignedStart} ELSE {})
    \cup (IF r.duration_hours \notin {1, 2} THEN {InvalidDuration} ELSE {})
    \cup (IF \E l \in lessons : Intersects(l, r.teacher, r.start_time, EndOf(r))
          THEN {SlotTaken} ELSE {})
    \cup (IF \E h \in HoursOf(r) : ~HourCovered(r.teacher, h)
          THEN {OutsideAvailability} ELSE {})
\* The fixed order of the rejection reasons, and the first reason of a non-empty set.
ReasonOrder == <<PastStart, MisalignedStart, InvalidDuration, SlotTaken, OutsideAvailability>>
FirstReason(S) ==
    ReasonOrder[CHOOSE i \in 1..Len(ReasonOrder) :
                    /\ ReasonOrder[i] \in S
                    /\ \A j \in 1..(i - 1) : ReasonOrder[j] \notin S]

\* C11 as stated: a request that violates more than one rule is answered with exactly
\* one rejection reason, the first of the violated rules in the order PastStart,
\* MisalignedStart, InvalidDuration, SlotTaken, OutsideAvailability.
C11_AsStated ==
    \A p \in Procs :
        (pc[p] # "idle" /\ Cardinality(ViolatedRules(req[p])) > 1)
            => errors[p] = {FirstReason(ViolatedRules(req[p]))}

\* C11 amended: a rejected request is answered with the first violated rule of the start
\* (PastStart before MisalignedStart, never both), together with InvalidDuration when
\* the duration is not 1 or 2; and when start and duration pass, with exactly one
\* reason, SlotTaken before OutsideAvailability.
C11_FirstReasonPerStage ==
    \A p \in Procs :
        pc[p] # "idle" =>
            /\ ~(PastStart \in errors[p] /\ MisalignedStart \in errors[p])
            /\ (req[p].start_time < now /\ req[p].start_time % Hour # 0)
                  => PastStart \in errors[p]
            /\ (InvalidDuration \in errors[p]) <=> (req[p].duration_hours \notin {1, 2})
            /\ (errors[p] \cap {SlotTaken, OutsideAvailability} # {})
                  => Cardinality(errors[p]) = 1
            /\ ({SlotTaken, OutsideAvailability} \subseteq ViolatedRules(req[p])
                  /\ Evaluated(p, "overlap"))
                  => errors[p] = {SlotTaken}

\* C11 happens: a request with a past start off the hour and a duration of 3 hours is
\* answered with PastStart and InvalidDuration together.
C11_Witness ==
    \E p \in Procs :
        /\ {PastStart, MisalignedStart, InvalidDuration} \subseteq ViolatedRules(req[p])
        /\ errors[p] = {PastStart, InvalidDuration}

(***************************************************************************)
(* Properties of the availability endpoint (SpecAvailability).             *)
(***************************************************************************)
\* The answers the availability endpoint can give for the query on the lessons lsns.
Answers(lsns) ==
    { get_availability(
          ordered,
          booked_slots(booked_lessons(lsns, query.teacher, query.date_from, query.date_to),
                       utcoffset),
          query.date_from, query.date_to, now)
        : ordered \in order_by_start_time({w \in schedules : w.teacher = query.teacher}) }
\* All the slots of the answer, and the start timestamps offered.
Slots == UNION { { availability.result[i].slots[j]
                     : j \in 1..Len(availability.result[i].slots) }
                 : i \in 1..Len(availability.result) }
Offered == {s.start_time : s \in Slots}

\* C12: only lessons with status void or approved block.  The answer of the availability
\* endpoint is an answer it gives when every lesson with status cancelled_by_teacher,
\* cancelled_by_student or done is taken out of the table; and a booking is rejected as
\* SlotTaken only when a void or approved lesson of the teacher intersects its interval.
C12_OnlyPendingApprovedBlock ==
    /\ availability.done
          => availability.result \in Answers({l \in lessons : l.status \in {VOID, APPROVED}})
    /\ \A p \in Procs :
          SlotTaken \in errors[p]
              => \E l \in lessons :
                    Intersects(l, req[p].teacher, req[p].start_time, EndOf(req[p]))

\* C12 happens: a cancelled or done lesson of the teacher is stored, and the slot at the
\* wall-clock hour that the endpoint would mark for it is offered.
C12_Witness ==
    /\ availability.done
    /\ \E l \in lessons :
          /\ l.teacher = query.teacher
          /\ l.status \in {CANCELLED_BY_TEACHER, CANCELLED_BY_STUDENT, DONE}
          /\ replace_tzinfo_utc(l.start_time, utcoffset) \in Offered

\* The timestamps the loops of the endpoint visit for the query: the hour steps of every
\* window of the teacher on every date of the range.
Walked ==
    UNION { { slot_walk(d, w)[k] : k \in 1..Len(slot_walk(d, w)) }
            : <<d, w>> \in { x \in (query.date_from..query.date_to) \X schedules :
                               /\ x[2].teacher = query.teacher
                               /\ x[2].weekday = WEEKDAYS[(x[1] % 7) + 1] } }

\* C13: no slot of the answer starts at or before now.
C13_NoSlotAtOrBeforeNow ==
    availability.done => \A t \in Offered : t > now

\* C13 happens: the loops visit a timestamp equal to now and one before now, and the
\* answer offers a later one.
C13_Witness ==
    /\ availability.done
    /\ now \in Walked
    /\ \E t \in Walked : t < now
    /\ Offered # {}

\* The hours occupied by the blocking lessons of a teacher: for each void or approved
\* lesson, the timestamps from its start up to (not including) its end, or its start + 1
\* hour when it has no end, in steps of one hour.
Occupied(teacher) ==
    UNION { { l.start_time + i * Hour
                : i \in 0..((IF l.end_time = <<>> THEN Hour ELSE l.end_time[1] - l.start_time)
                            + Hour - 1) \div Hour - 1 }
            : l \in {m \in lessons : m.teacher = teacher /\ m.status \in {VOID, APPROVED}} }

\* C14 as stated: a timestamp that the endpoint visits inside a window is offered exactly
\* when it is not an occupied hour of a blocking lesson of the teacher and is strictly
\* later than now, also for a lesson that started on the day before date_from.
C14_OfferedIffFreeAndFuture ==
    availability.done
        => \A t \in Walked :
              (t \in Offered) <=> (t \notin Occupied(query.teacher) /\ t > now)

\* C15 as stated: the can_book_2_hours flag of an offered slot is true exactly when the
\* timestamp one hour later is before the end of the window the slot comes from and is
\* not an occupied hour; and with the single window Sunday 13:00-16:00 and the single
\* void lesson Sunday 14:00-15:00 the Sunday slots are 13:00 and 15:00, both with the flag
\* false.
C15_TwoHourFlag ==
    availability.done
        => /\ \A i \in 1..Len(availability.result) :
              \A j \in 1..Len(availability.result[i].slots) :
                 LET d == availability.result[i].date
                     s == availability.result[i].slots[j]
                 IN  \E w \in schedules :
                        /\ w.teacher = query.teacher
                        /\ w.weekday = WEEKDAYS[(d % 7) + 1]
                        /\ \E k \in 1..Len(slot_walk(d, w)) : slot_walk(d, w)[k] = s.start_time
                        /\ s.can_book_2_hours
                             <=> /\ s.start_time + Hour < d * Day + w.end_time
                                 /\ s.start_time + Hour \notin Occupied(query.teacher)
           /\ ( /\ schedules = { [teacher |-> 1, weekday |-> "sunday",
                                  start_time |-> hms(13, 0, 0), end_time |-> hms(16, 0, 0)] }
                /\ { <<l.teacher, l.start_time, l.end_time, l.status>> : l \in lessons }
                      = { <<1, at(6, hms(14, 0, 0)), Some(at(6, hms(15, 0, 0))), VOID>> }
                /\ now < at(6, hms(13, 0, 0))
                /\ query = [teacher |-> 1, date_from |-> 6, date_to |-> 6] )
              => Slots = { [start_time |-> at(6, hms(13, 0, 0)), can_book_2_hours |-> FALSE],
                           [start_time |-> at(6, hms(15, 0, 0)), can_book_2_hours |-> FALSE] }

\* C16 as stated: a 2-hour request for a slot that the answer flags can_book_2_hours is
\* accepted by the validator on the same windows, lessons and now.
C16_FlagImpliesAccepted ==
    \A p \in Procs :
        ( /\ pc[p] # "idle"
          /\ availability.done
          /\ req[p].duration_hours = 2
          /\ \E s \in Slots : s.start_time = req[p].start_time /\ s.can_book_2_hours )
        => pc[p] = "valid"

\* C17 as stated: a slot is offered from a window only if the hour it starts ends within
\* the window: start + 1 hour <= window.end_time, for a window the walk of which holds it.
C17_NoPartialHour ==
    availability.done
        => \A i \in 1..Len(availability.result) :
           \A j \in 1..Len(availability.result[i].slots) :
              LET d == availability.result[i].date
                  t == availability.result[i].slots[j].start_time
              IN  \E w \in schedules :
                     /\ w.teacher = query.teacher
                     /\ w.weekday = WEEKDAYS[(d % 7) + 1]
                     /\ \E k \in 1..Len(slot_walk(d, w)) : slot_walk(d, w)[k] = t
                     /\ t + Hour <= d * Day + w.end_time

\* C18 as stated: every slot of the answer starts on the hour.
C18_SlotsHourAligned ==
    availability.done => \A t \in Offered : t % Hour = 0

\* The dates that are keys of the answer.
Keys == {availability.result[i].date : i \in 1..Len(availability.result)}

\* C19: no date of the answer maps to an empty sequence, no date is a key twice, and a
\* date is a key exactly when it is in date_from..date_to and the endpoint visits, in a
\* window of that date, a timestamp later than now that is not in booked_slots.
C19_KeysAreDatesWithSlots ==
    availability.done
        => /\ \A i \in 1..Len(availability.result) : availability.result[i].slots # <<>>
           /\ Cardinality(Keys) = Len(availability.result)
           /\ \A d \in 0..8 :
                 (d \in Keys)
                    <=> /\ d \in query.date_from..query.date_to
                        /\ \E t \in Walked :
                              /\ t \div Day = d
                              /\ t > now
                              /\ t \notin booked_slots(
                                    booked_lessons(lessons, query.teacher,
                                                   query.date_from, query.date_to), utcoffset)

\* C19 happens: of two dates asked for, both with a window, only one is a key.
C19_Witness ==
    /\ availability.done
    /\ query.date_to = query.date_from + 1
    /\ \A d \in {query.date_from, query.date_to} : \E t \in Walked : t \div Day = d
    /\ Len(availability.result) = 1

\* The slots of every date are in strictly ascending order of start.
Ascending ==
    \A i \in 1..Len(availability.result) :
       \A j, k \in 1..Len(availability.result[i].slots) :
          j < k => availability.result[i].slots[j].start_time
                      < availability.result[i].slots[k].start_time

\* C20 as stated: within each date of the answer the slots are in strictly ascending
\* order of start, for any set of stored windows.
C20_AsStated == availability.done => Ascending

\* C20 amended: the same, when no two stored windows of the teacher on a weekday overlap.
C20_AscendingWithoutOverlap ==
    (availability.done /\ no_overlap(schedules)) => Ascending

\* C20 happens: two windows of a weekday that do not overlap both give slots of a date.
C20_Witness ==
    /\ availability.done
    /\ no_overlap(schedules)
    /\ \E i \in 1..Len(availability.result) :
       \E j \in 1..(Len(availability.result[i].slots) - 1) :
          availability.result[i].slots[j + 1].start_time
             - availability.result[i].slots[j].start_time < Hour

\* C26 as stated: a 1-hour request that starts at a slot of the answer is accepted by
\* the validator on the same windows, lessons and now.
C26_SlotBookableForOneHour ==
    \A p \in Procs :
        ( /\ pc[p] # "idle"
          /\ availability.done
          /\ req[p].teacher = query.teacher
          /\ req[p].duration_hours = 1
          /\ req[p].start_time \in Offered )
        => pc[p] = "valid"

(***************************************************************************)
(* Properties of the schedule endpoints (SpecSchedule).                    *)
(***************************************************************************)
\* C21: after any series of schedule create, update and partial-update requests, no two
\* stored windows of a teacher on a weekday overlap; and a request that is answered with
\* an error leaves the stored windows as they were.
C21_WindowsNeverOverlap ==
    /\ [](\A a, b \in schedules :
             (a # b /\ a.teacher = b.teacher /\ a.weekday = b.weekday)
                => ~(a.start_time < b.end_time /\ a.end_time > b.start_time))
    /\ [][response'.code >= 400 => schedules' = schedules]_vars

\* C21 happens: an update that would make a window overlap another window of the teacher
\* is rejected.
C21_Witness ==
    /\ response.op = "schedule_update"
    /\ response.status = "overlaps"
    /\ \E a, b \in schedules : a # b /\ a.teacher = b.teacher /\ a.weekday = b.weekday

\* C22: after any series of schedule create, update and partial-update requests, every
\* stored window has start_time < end_time.
C22_StartBeforeEnd ==
    \A w \in schedules : w.start_time < w.end_time

\* C22 happens: a partial update that gives only one of start_time and end_time has been
\* answered (with the error of the missing key) and the stored window is in place.
C22_Witness ==
    /\ response.op = "schedule_partial_update"
    /\ response.status = "KeyError"
    /\ schedules # {}

\* C24: when the overlap check of validate runs and a blocking lesson of the
\* teacher without an end starts before the request ends and less than one
\* hour before or at the request's start or later, the request is rejected
\* as SlotTaken.
C24_NoEndSpansOneHour ==
    \A p \in Procs :
        ( /\ Evaluated(p, "overlap")
          /\ req[p].duration_hours \in {1, 2}
          /\ \E l \in lessons :
                 /\ l.teacher = req[p].teacher
                 /\ l.status \in Blocking
                 /\ IsNull(l.end_time)
                 /\ l.start_time < EndOf(req[p])
                 /\ l.start_time + Hour > req[p].start_time )
        => /\ pc[p] = "invalid"
           /\ errors[p] = {SlotTaken}

(***************************************************************************)
(* Properties of the registration and activation endpoints (SpecUser).     *)
(***************************************************************************)

\* token is an activation token of user that carries the signature and has
\* not expired at now_.
ValidActivationToken(token, user, now_) ==
    /\ token.signed
    /\ token.purpose = "activation"
    /\ token.user_id = user.id
    /\ token.exp > now_

\* The step turns the inactive user u into an active one.
Activates(u) ==
    /\ u \in users
    /\ ~u.is_active
    /\ \E v \in users' : v.id = u.id /\ v.is_active

\* C23: a registration answered 201 inserts one user with the requested role
\* and is_active = FALSE; a step turns an inactive user active only when it
\* is a call of the activation endpoint with a signed, unexpired activation
\* token of that user, and such a call does turn the user active.
C23_InactiveUntilActivated ==
    [][ /\ (user_request'.op = "register" /\ response'.code = 201)
            => \E u \in users' \ users :
                   /\ users' = users \cup {u}
                   /\ u.id = response'.id
                   /\ u.role = user_request'.role
                   /\ ~u.is_active
        /\ \A u \in users :
               Activates(u)
                   => /\ user_request'.op = "activate"
                      /\ ValidActivationToken(user_request'.token, u, now)
        /\ \A u \in users :
               ( /\ ~u.is_active
                 /\ user_request'.op = "activate"
                 /\ ValidActivationToken(user_request'.token, u, now) )
                   => [u EXCEPT !.is_active = TRUE] \in users'
      ]_vars

\* A user registered earlier has been activated after time has passed, while
\* another registered user is still inactive.
C23_Witness ==
    /\ response.op = "activate"
    /\ response.status = "activated"
    /\ now > SystemStart
    /\ \E u, v \in users : u.id = response.id /\ u.is_active /\ ~v.is_active

\* C30: a registration that gets as far as creating the user and then fails
\* to generate the token or to send the email is answered with the validation
\* error, leaves the table as it was, with no user under the address, and the
\* same address passes the registration's checks again.
C30_FailedRegistrationLeavesNoUser ==
    [][ ( /\ user_request'.op = "register"
          /\ user_request'.failure # "none"
          /\ UserRegistrationSerializer_validate_email(users, user_request'.email)
          /\ ~(\E u \in users : u.email = normalize_email(user_request'.email)) )
            => /\ response'.code = 400
               /\ response'.status = "activation_email_failed"
               /\ users' = users
               /\ tokens' = tokens
               /\ ~(\E u \in users' : u.email = normalize_email(user_request'.email))
               /\ UserRegistrationSerializer_validate_email(users', user_request'.email)
               /\ UserRegistrationSerializer_create(users', user_seq',
                      user_request'.email, user_request'.role, "none", now').code = 201
      ]_vars

\* A registration has failed at the email next to a user registered before:
\* the key it drew is spent and no user holds its address.
C30_Witness ==
    /\ response.op = "register"
    /\ response.status = "activation_email_failed"
    /\ user_request.failure = "email"
    /\ users # {}
    /\ user_seq > Cardinality(users)
    /\ ~(\E u \in users : u.email = normalize_email(user_request.email))

(***************************************************************************)
(* Properties of the lesson endpoints (Spec).                              *)
(***************************************************************************)
\* Two requests ask for the same teacher and intersecting intervals.
Conflicting(r1, r2) ==
    /\ r1.teacher = r2.teacher
    /\ r1.start_time < EndOf(r2)
    /\ EndOf(r1) > r2.start_time

C4_AcceptedIsPersisted ==
    \A p \in Procs :
        pc[p] = "created"
            => \E l \in lessons : /\ l.teacher = req[p].teacher
                                  /\ l.start_time = req[p].start_time
                                  /\ l.end_time = Some(EndOf(req[p]))
                                  /\ l.status = VOID

MayCancel(lesson, user, now_) ==
    /\ lesson.status \in {VOID, APPROVED}
    /\ lesson.start_time >= now_ + hours(LESSON_CANCEL_DEADLINE_HOURS)
    /\ \/ user.role = ROLE_STUDENT /\ lesson.student = user.id
       \/ user.role = ROLE_TEACHER /\ lesson.teacher = user.id
CancelledBy(user) ==
    IF user.role = ROLE_STUDENT THEN CANCELLED_BY_STUDENT ELSE CANCELLED_BY_TEACHER
\* The stored lessons the status of which the step changes.
StatusChanged == {l \in lessons : \E m \in lessons' : m.id = l.id /\ m.status # l.status}

\* C27: a call of cancel_lesson changes the status of no lesson but the one it names,
\* and of that one only when its status is void or approved, it starts at least
\* LESSON_CANCEL_DEADLINE_HOURS after now and the caller is its student (new status
\* cancelled_by_student) or its teacher (cancelled_by_teacher); in every other case
\* the response is an error and the table is unchanged.
C27_CancelOnlyWhenAllowed ==
    [][ response'.op = "cancel"
          => \A user \in Users : \A lesson \in lessons :
                CancelLesson(user, lesson.id)
                    => /\ StatusChanged \subseteq {lesson}
                       /\ lesson \in StatusChanged
                             => /\ MayCancel(lesson, user, now)
                                /\ [lesson EXCEPT !.status = CancelledBy(user)] \in lessons'
                       /\ ~MayCancel(lesson, user, now)
                             => /\ response'.code >= 400
                                /\ lessons' = lessons
      ]_vars

\* A cancel has been answered 200 and the stored lesson has the cancelled status.
C27_Witness ==
    /\ response.op = "cancel"
    /\ response.code = 200
    /\ \E l \in lessons : l.id = response.id /\ l.status = response.status
                            /\ l.status \in {CANCELLED_BY_STUDENT, CANCELLED_BY_TEACHER}

\* The conditions under which the claim lets user approve lesson.
MayApprove(lesson, user) ==
    /\ user.role = ROLE_TEACHER
    /\ lesson.teacher = user.id
    /\ lesson.status = VOID

C29_TerminalStatuses ==
    [][ \A l \in lessons :
           l.status \in {CANCELLED_BY_TEACHER, CANCELLED_BY_STUDENT, DONE}
               => \A m \in lessons' : m.id = l.id => m.status = l.status
      ]_vars

====
